---- MODULE Spec2Model ----
(***************************************************************************)
(* A model of nrser/log.c (src/src/log.c, src/src/log.h): the process-wide *)
(* logger state L, the level utilities, the setters, the environment       *)
(* latch and the emission routine log_log with its lock callback.          *)
(*                                                                         *)
(* Strings are sequences of one-character strings, so that toupper(),      *)
(* strcmp() and sprintf("%d") are computed and not assumed.                *)
(*                                                                         *)
(* Five specifications are given over the same variables:                  *)
(*   Spec         one thread calls log_log and the plain setters one after *)
(*                another; each action is a whole call, nested calls       *)
(*                included.                                                *)
(*   SpecStrings  the same for the functions that take or make strings.    *)
(*   SpecEnv      the same for log_init_from_env, with LOG_LEVEL changing  *)
(*                in the environment.                                      *)
(*   SpecThreads  two threads run log_log step by step, interleaved with   *)
(*                each other and with log_set_lock and log_set_udata.      *)
(*   SpecLocked   two threads run log_log step by step with a mutex        *)
(*                callback installed beforehand and never replaced.        *)
(***************************************************************************)
EXTENDS Integers, Sequences, FiniteSets, TLC

VARIABLES L, has_init_from_env, level_strings, env,
          console, file, held, calls, pc, op, ret

vars == <<L, has_init_from_env, level_strings, env,
          console, file, held, calls, pc, op, ret>>

----------------------------------------------------------------------------
(* Bounds of the model.                                                    *)

\* At most this many lines are sent to each sink in one behaviour of the
\* specifications in which one thread makes the calls.
MaxLines == 1

\* At most this many emissions pass the threshold test in one behaviour of
\* the specifications with several threads.
MaxEmissions == 2

----------------------------------------------------------------------------
(* Program constants.                                                      *)

LOG_TRACE == -1
LOG_DEBUG == 0
LOG_INFO == 1
LOG_WARN == 2
LOG_ERROR == 3
LOG_FATAL == 4

BAD_LEVEL == 666

Levels == LOG_TRACE..LOG_FATAL

\* Pointer values.  NULL is the null function pointer, FILE * and void *.
NULL == "NULL"
\* The null char * and an invalid char * (what a read past the end of an
\* array may yield); both are kept in the shape of a string so that they
\* can stand where a string is expected.  No input contains these tokens.
NullStr == <<"(null)">>
Garbage == <<"(garbage)">>

Threads == {"t1", "t2"}
Main == "t1"

\* The lock callbacks a host installs: none, or a mutex keyed by udata.
MutexFn == "mutex_fn"
LockFns == {NULL, MutexFn}
Udatas == {NULL, "m1"}
Fps == {NULL, "fp1"}
Free == "free"

----------------------------------------------------------------------------
(* Strings.                                                                *)

LowerChars == <<"a","b","c","d","e","f","g","h","i","j","k","l","m",
                "n","o","p","q","r","s","t","u","v","w","x","y","z">>
UpperChars == <<"A","B","C","D","E","F","G","H","I","J","K","L","M",
                "N","O","P","Q","R","S","T","U","V","W","X","Y","Z">>
DigitChars == <<"0","1","2","3","4","5","6","7","8","9">>

\* toupper(3) and tolower(3) in the C locale, as tables over the letters.
UpperOf == [c \in {LowerChars[i] : i \in 1..26} |->
              UpperChars[CHOOSE i \in 1..26 : LowerChars[i] = c]]
LowerOf == [c \in {UpperChars[i] : i \in 1..26} |->
              LowerChars[CHOOSE i \in 1..26 : UpperChars[i] = c]]

toupper(c) == IF c \in DOMAIN UpperOf THEN UpperOf[c] ELSE c

\* Not used by the code; used to build the mixed-case inputs.
tolower(c) == IF c \in DOMAIN LowerOf THEN LowerOf[c] ELSE c

\* The loop of log_name_to_level that upper-cases the copy of name.
Upcase(s) == [i \in 1..Len(s) |-> toupper(s[i])]

\* strcmp(a, b) == 0
StrEq(a, b) ==
  /\ Len(a) = Len(b)
  /\ \A i \in 1..Len(a) : a[i] = b[i]

RECURSIVE Digits(_)
Digits(n) ==
  IF n < 10 THEN <<DigitChars[n + 1]>>
  ELSE Digits(n \div 10) \o <<DigitChars[(n % 10) + 1]>>

\* sprintf(str, "%d", x)
int_to_string(x) ==
  IF x < 0 THEN <<"-">> \o Digits(0 - x) ELSE Digits(x)

level_names == << <<"T","R","A","C","E">>, <<"D","E","B","U","G">>,
                  <<"I","N","F","O">>,     <<"W","A","R","N">>,
                  <<"E","R","R","O","R">>, <<"F","A","T","A","L">> >>

----------------------------------------------------------------------------
(* Functional utilities.                                                   *)

log_is_level(level) == level >= LOG_TRACE /\ level <= LOG_FATAL

log_level_to_name(level) ==
  IF ~log_is_level(level) THEN NullStr
  ELSE level_names[level - LOG_TRACE + 1]

\* num_levels as log_level_strings computes it.
num_levels == LOG_FATAL - LOG_TRACE

\* level_strings before the first call of log_level_strings.
NullTable == [alloc |-> FALSE, size |-> 0, slots |-> <<>>, past |-> <<>>]

\* level_strings[i] = v on a table of tbl.size slots: an index at or past
\* the size lands in the memory after the array, kept in tbl.past.
Store(tbl, i, v) ==
  IF i < tbl.size
    THEN [tbl EXCEPT !.slots[i + 1] = v]
    ELSE [tbl EXCEPT !.past = [k \in 1..(i - tbl.size + 1) |->
                                 IF k = i - tbl.size + 1 THEN v
                                 ELSE IF k <= Len(tbl.past) THEN tbl.past[k]
                                 ELSE Garbage]]

RECURSIVE FillLevelStrings(_, _)
FillLevelStrings(tbl, level) ==
  IF level > LOG_FATAL THEN tbl
  ELSE FillLevelStrings(Store(tbl, level - LOG_TRACE, int_to_string(level)),
                        level + 1)

\* log_level_strings(): the table after the call.
log_level_strings(tbl) ==
  IF tbl.alloc THEN tbl
  ELSE FillLevelStrings([alloc |-> TRUE, size |-> num_levels,
                         slots |-> [k \in 1..num_levels |-> Garbage],
                         past |-> <<>>],
                        LOG_TRACE)

\* What reading level_strings[i] may yield: the slot when i is inside the
\* array; past its end the read is undefined, and yields either what was
\* last stored there or something else.
ReadSlot(tbl, i) ==
  IF i < tbl.size THEN {tbl.slots[i + 1]}
  ELSE IF i - tbl.size + 1 <= Len(tbl.past)
    THEN {tbl.past[i - tbl.size + 1], Garbage}
    ELSE {Garbage}

\* log_level_to_string(level) on the (already built) table tbl, where g is
\* what a read past the end of the array yields.
log_level_to_string(tbl, level, g) ==
  IF ~log_is_level(level) THEN NullStr
  ELSE IF level - LOG_TRACE < tbl.size THEN tbl.slots[level - LOG_TRACE + 1]
  ELSE g

----------------------------------------------------------------------------
(* The part of the program state the functions below read and write, as a  *)
(* record: L, level_strings (ls), the two sinks, the host's mutexes and    *)
(* the calls made to the lock callback.                                    *)

Cur == [L |-> L, ls |-> level_strings, console |-> console, file |-> file,
        held |-> held, calls |-> calls]

Commit(st) ==
  /\ L' = st.L
  /\ level_strings' = st.ls
  /\ console' = st.console
  /\ file' = st.file
  /\ held' = st.held
  /\ calls' = st.calls

\* calls[t] holds the callback invocations of thread t's current (or most
\* recent) public call; it is emptied when the next call begins.
Begin(t) == [Cur EXCEPT !.calls[t] = <<>>]

\* The host's callback mutex_fn(udata, lock): a mutex per udata value.  The
\* blocking of an acquire is the guard of the step that calls it.
MutexFree(st, ud) == st.held[ud] = Free

Callback(st, t, fn, ud, acquiring) ==
  [st EXCEPT !.calls[t] = Append(@, [fn |-> fn, udata |-> ud, lock |-> acquiring]),
             !.held[ud] = IF acquiring = 1 THEN t
                          ELSE IF @ = t THEN Free ELSE @]

\* Mutant: lock() that does not call the callback.
lock_without_callback(st, t) == st

lock(st, t) ==
  IF st.L.lock # NULL THEN Callback(st, t, st.L.lock, st.L.udata, 1) ELSE st

\* Mutant: unlock() that does not call the callback.
unlock_without_callback(st, t) == st

unlock(st, t) ==
  IF st.L.lock # NULL THEN Callback(st, t, st.L.lock, st.L.udata, 0) ELSE st

\* One fprintf/vfprintf to a sink, kept as <<writing thread, text>>.  A line
\* is written in three parts: the prefix (time, level name, file:line:), the
\* formatted message, and the newline, which is followed by the fflush.
Prefix == "HH:MM:SS LEVEL file:line: "
Newline == "\\n"

\* The messages: the three that log.c itself logs, and the host's.
MsgNotFound == "Level name '%s' not found"
MsgBadLevel == "Tried to set bad log level %d"
MsgEmpty == "Received empty string"
MsgUser == "(message of the host)"

to_stderr(st, t, text) == [st EXCEPT !.console = Append(@, <<t, text>>)]

to_file(st, t, text) == [st EXCEPT !.file = Append(@, <<t, text>>)]

stderr_line(st, t, msg) ==
  to_stderr(to_stderr(to_stderr(st, t, Prefix), t, msg), t, Newline)

file_line(st, t, msg) ==
  to_file(to_file(to_file(st, t, Prefix), t, msg), t, Newline)

\* Mutant: the threshold test written with <=.
passes_strictly_above(st, level) == ~(level <= st.L.level)

\* Does the emission go on after the threshold test?
passes(st, level) == ~(level < st.L.level)

\* Mutant: quiet silences the file sink too.
log_log_quiet_all(st, t, level, msg) ==
  IF level < st.L.level THEN st
  ELSE LET s1 == lock(st, t)
           s2 == IF ~s1.L.quiet THEN stderr_line(s1, t, msg) ELSE s1
           s3 == IF s2.L.fp # NULL /\ ~s2.L.quiet THEN file_line(s2, t, msg) ELSE s2
       IN  unlock(s3, t)

\* log_log(level, file, line, msg, ...) run by thread t without interruption.
log_log(st, t, level, msg) ==
  IF ~passes(st, level) THEN st
  ELSE LET s1 == lock(st, t)
           s2 == IF ~s1.L.quiet THEN stderr_line(s1, t, msg) ELSE s1
           s3 == IF s2.L.fp # NULL THEN file_line(s2, t, msg) ELSE s2
       IN  unlock(s3, t)

\* The log_error(...) macro.
log_error(st, t, msg) == log_log(st, t, LOG_ERROR, msg)

\* Mutant: the level is stored without the validity test.
log_set_level_unchecked(st, t, level) == [st EXCEPT !.L.level = level]

log_set_level(st, t, level) ==
  IF ~log_is_level(level) THEN log_error(st, t, MsgBadLevel)
  ELSE [st EXCEPT !.L.level = level]

\* The for loop of log_name_to_level: <<level>> of the first level whose
\* name equals upcased, <<>> when the loop ends without returning.
RECURSIVE NameLoop(_, _)
NameLoop(upcased, level) ==
  IF level > LOG_FATAL THEN <<>>
  ELSE IF StrEq(log_level_to_name(level), upcased) THEN <<level>>
  ELSE NameLoop(upcased, level + 1)

\* Mutant: a name that is not found resolves to the first level.
log_name_to_level_lenient(st, t, name) ==
  LET found == NameLoop(Upcase(name), LOG_TRACE)
  IN  IF found # <<>> THEN [st |-> st, ret |-> found[1]]
      ELSE [st |-> log_log(st, t, LOG_ERROR, MsgNotFound), ret |-> LOG_TRACE]

\* Functions with a result yield [st |-> the state after, ret |-> result].
log_name_to_level(st, t, name) ==
  LET found == NameLoop(Upcase(name), LOG_TRACE)
  IN  IF found # <<>> THEN [st |-> st, ret |-> found[1]]
      ELSE [st |-> log_error(st, t, MsgNotFound), ret |-> BAD_LEVEL]

log_set_level_by_name(st, t, name) ==
  LET r == log_name_to_level(st, t, name)
  IN  IF r.ret # BAD_LEVEL
        THEN [st |-> log_set_level(r.st, t, r.ret), ret |-> r.ret]
        ELSE r

\* The for loop of log_set_level_from_string over the built table tbl.
RECURSIVE OrdinalLoop(_, _, _, _)
OrdinalLoop(string, tbl, g, level) ==
  IF level > LOG_FATAL THEN <<>>
  ELSE IF StrEq(string, log_level_to_string(tbl, level, g)) THEN <<level>>
  ELSE OrdinalLoop(string, tbl, g, level + 1)

\* What the reads past the end of the table may yield in one call.
PastReads(tbl) ==
  LET over == {i \in 0..(LOG_FATAL - LOG_TRACE) : i >= tbl.size}
  IN  IF over = {} THEN {Garbage}
      ELSE UNION {ReadSlot(tbl, i) : i \in over}

log_set_level_from_string(st, t, string, g) ==
  IF Len(string) = 0 THEN [st |-> log_error(st, t, MsgEmpty), ret |-> BAD_LEVEL]
  ELSE LET s1 == [st EXCEPT !.ls = log_level_strings(@)]
           m  == OrdinalLoop(string, s1.ls, g, LOG_TRACE)
       IN  IF m # <<>>
             THEN [st |-> log_set_level(s1, t, m[1]), ret |-> m[1]]
             ELSE log_set_level_by_name(s1, t, string)

----------------------------------------------------------------------------
(* Inputs.                                                                 *)

Lowercase(s) == [i \in 1..Len(s) |-> tolower(s[i])]
MixedCase(s) == [i \in 1..Len(s) |-> IF i % 2 = 0 THEN tolower(s[i]) ELSE s[i]]

Bogus == <<"b","o","g","u","s">>

\* Every level's name in upper, lower and mixed case ("DEBUG", "debug",
\* "DeBuG"), every level's ordinal in decimal ("-1" .. "4"), the empty
\* string, a word that is no level, and a digit that is no level.
NameInputs ==
  UNION {{level_names[k], Lowercase(level_names[k]), MixedCase(level_names[k])} :
         k \in 1..Len(level_names)}
OrdinalInputs == {int_to_string(v) : v \in Levels}
BadInputs == {<<>>, Bogus, int_to_string(LOG_FATAL + 1)}
StrInputs == NameInputs \cup OrdinalInputs \cup BadInputs

\* Arguments of log_set_level: the levels, their two neighbours and 999.
LevelArgs == (LOG_TRACE - 1)..(LOG_FATAL + 1) \cup {999}

\* getenv("LOG_LEVEL"): unset (NullStr), empty, invalid, a name, an ordinal.
EnvValues == {NullStr, <<>>, Bogus, Lowercase(level_names[LOG_WARN - LOG_TRACE + 1]),
              int_to_string(LOG_ERROR)}

----------------------------------------------------------------------------
(* The last public call and its result.                                    *)

Op(name, int, str) == [name |-> name, int |-> int, str |-> str]

RetVoid == [kind |-> "void", int |-> 0, str |-> <<>>]
RetInt(v) == [kind |-> "int", int |-> v, str |-> <<>>]
RetStr(s) == [kind |-> "str", int |-> 0, str |-> s]

\* Complete lines in a sink.
Lines(stream) == Cardinality({i \in 1..Len(stream) : stream[i][2] = Newline})

\* The bound on output: a call that may log is made only while both sinks
\* have room for its line.
Room == Lines(console) < MaxLines /\ Lines(file) < MaxLines

Idle == \A t \in Threads : pc[t] = "idle"

----------------------------------------------------------------------------
(* The public functions, each called by Main and run to its return.        *)

Init ==
  /\ L = [udata |-> NULL, lock |-> NULL, fp |-> NULL, level |-> 0, quiet |-> FALSE]
  /\ has_init_from_env = 0
  /\ level_strings = NullTable
  /\ env = NullStr
  /\ console = <<>>
  /\ file = <<>>
  /\ held = [u \in Udatas |-> Free]
  /\ calls = [t \in Threads |-> <<>>]
  /\ pc = [t \in Threads |-> "idle"]
  /\ op = Op("start", 0, <<>>)
  /\ ret = RetVoid

LogLog(level) ==
  /\ Idle /\ Room
  /\ Commit(log_log(Begin(Main), Main, level, MsgUser))
  /\ op' = Op("log_log", level, <<>>)
  /\ ret' = RetVoid
  /\ UNCHANGED <<has_init_from_env, env, pc>>

SetLevel(level) ==
  /\ Idle /\ Room
  /\ Commit(log_set_level(Begin(Main), Main, level))
  /\ op' = Op("log_set_level", level, <<>>)
  /\ ret' = RetVoid
  /\ UNCHANGED <<has_init_from_env, env, pc>>

NameToLevel(name) ==
  /\ Idle /\ Room
  /\ LET r == log_name_to_level(Begin(Main), Main, name)
     IN  Commit(r.st) /\ ret' = RetInt(r.ret)
  /\ op' = Op("log_name_to_level", 0, name)
  /\ UNCHANGED <<has_init_from_env, env, pc>>

SetLevelByName(name) ==
  /\ Idle /\ Room
  /\ LET r == log_set_level_by_name(Begin(Main), Main, name)
     IN  Commit(r.st) /\ ret' = RetInt(r.ret)
  /\ op' = Op("log_set_level_by_name", 0, name)
  /\ UNCHANGED <<has_init_from_env, env, pc>>

SetLevelFromString(string) ==
  /\ Idle /\ Room
  /\ \E g \in PastReads(log_level_strings(level_strings)) :
       LET r == log_set_level_from_string(Begin(Main), Main, string, g)
       IN  Commit(r.st) /\ ret' = RetInt(r.ret)
  /\ op' = Op("log_set_level_from_string", 0, string)
  /\ UNCHANGED <<has_init_from_env, env, pc>>

LevelStrings ==
  /\ Idle
  /\ Commit([Begin(Main) EXCEPT !.ls = log_level_strings(@)])
  /\ op' = Op("log_level_strings", 0, <<>>)
  /\ ret' = RetVoid
  /\ UNCHANGED <<has_init_from_env, env, pc>>

LevelToString(level) ==
  /\ Idle
  /\ IF ~log_is_level(level)
       THEN Commit(Begin(Main)) /\ ret' = RetStr(NullStr)
       ELSE LET tbl == log_level_strings(level_strings)
            IN  /\ Commit([Begin(Main) EXCEPT !.ls = tbl])
                /\ \E g \in ReadSlot(tbl, level - LOG_TRACE) :
                     ret' = RetStr(log_level_to_string(tbl, level, g))
  /\ op' = Op("log_level_to_string", level, <<>>)
  /\ UNCHANGED <<has_init_from_env, env, pc>>

SetQuiet(enable) ==
  /\ Idle
  /\ Commit([Begin(Main) EXCEPT !.L.quiet = enable])
  /\ op' = Op("log_set_quiet", IF enable THEN 1 ELSE 0, <<>>)
  /\ ret' = RetVoid
  /\ UNCHANGED <<has_init_from_env, env, pc>>

SetFp(fp) ==
  /\ Idle
  /\ Commit([Begin(Main) EXCEPT !.L.fp = fp])
  /\ op' = Op("log_set_fp", IF fp = NULL THEN 0 ELSE 1, <<>>)
  /\ ret' = RetVoid
  /\ UNCHANGED <<has_init_from_env, env, pc>>

SetLock(fn) ==
  /\ Idle
  /\ Commit([Begin(Main) EXCEPT !.L.lock = fn])
  /\ op' = Op("log_set_lock", IF fn = NULL THEN 0 ELSE 1, <<>>)
  /\ ret' = RetVoid
  /\ UNCHANGED <<has_init_from_env, env, pc>>

SetUdata(udata) ==
  /\ Idle
  /\ Commit([Begin(Main) EXCEPT !.L.udata = udata])
  /\ op' = Op("log_set_udata", IF udata = NULL THEN 0 ELSE 1, <<>>)
  /\ ret' = RetVoid
  /\ UNCHANGED <<has_init_from_env, env, pc>>

\* Mutant: the latch is not consulted.
latch_ignored == FALSE

\* Is this call of log_init_from_env one that returns at once?
latched == has_init_from_env # 0

InitFromEnv ==
  /\ Idle /\ Room
  /\ IF latched
       THEN Commit(Begin(Main)) /\ UNCHANGED has_init_from_env
       ELSE /\ IF env # NullStr
                 THEN \E g \in PastReads(log_level_strings(level_strings)) :
                        Commit(log_set_level_from_string(Begin(Main), Main, env, g).st)
                 ELSE Commit(Begin(Main))
            /\ has_init_from_env' = 1
  /\ op' = Op("log_init_from_env", 0, env)
  /\ ret' = RetVoid
  /\ UNCHANGED <<env, pc>>

\* The host (or its parent) changes LOG_LEVEL in the environment.
SetEnv(value) ==
  /\ Idle
  /\ value # env
  /\ env' = value
  /\ op' = Op("setenv", 0, value)
  /\ ret' = RetVoid
  /\ UNCHANGED <<L, has_init_from_env, level_strings, console, file, held, calls, pc>>

\* The states the setters can bring L to before the calls under study:
\* any quiet flag and file sink, and no callback or the mutex callback with
\* its mutex as user data.
Configured(l) ==
  /\ l.level = LOG_DEBUG
  /\ l.quiet \in BOOLEAN
  /\ l.fp \in Fps
  /\ <<l.lock, l.udata>> \in {<<NULL, NULL>>, <<MutexFn, "m1">>}

Start(l, values) ==
  /\ L = l
  /\ has_init_from_env = 0
  /\ level_strings = NullTable
  /\ env \in values
  /\ console = <<>>
  /\ file = <<>>
  /\ held = [u \in Udatas |-> Free]
  /\ calls = [t \in Threads |-> <<>>]
  /\ pc = [t \in Threads |-> "idle"]
  /\ op = Op("start", 0, <<>>)
  /\ ret = RetVoid

\* Spec: emission and the plain setters, from the state at program start.
Next ==
  \/ \E level \in Levels : LogLog(level)
  \/ \E level \in LevelArgs : SetLevel(level)
  \/ \E enable \in BOOLEAN : SetQuiet(enable)
  \/ \E fp \in Fps : SetFp(fp)
  \/ \E fn \in LockFns : SetLock(fn)
  \/ \E udata \in Udatas : SetUdata(udata)

Spec == Init /\ [][Next]_vars

\* SpecStrings: the functions that take or make strings, from every
\* configuration of the sinks and the callback.
InitStrings ==
  \E l \in [udata : Udatas, lock : LockFns, fp : Fps, level : Levels, quiet : BOOLEAN] :
    Configured(l) /\ Start(l, {NullStr})

NextStrings ==
  \/ \E name \in StrInputs : NameToLevel(name)
  \/ \E name \in StrInputs : SetLevelByName(name)
  \/ \E string \in StrInputs : SetLevelFromString(string)
  \/ LevelStrings
  \/ \E level \in LevelArgs : LevelToString(level)

SpecStrings == InitStrings /\ [][NextStrings]_vars

\* SpecEnv: log_init_from_env, the environment changing under it, and the
\* setters of the threshold and the sinks.
InitEnv ==
  Start([udata |-> NULL, lock |-> NULL, fp |-> NULL, level |-> 0, quiet |-> FALSE],
        EnvValues)

NextEnv ==
  \/ InitFromEnv
  \/ \E value \in EnvValues : SetEnv(value)
  \/ \E level \in LevelArgs : SetLevel(level)
  \/ \E enable \in BOOLEAN : SetQuiet(enable)
  \/ \E fp \in Fps : SetFp(fp)

SpecEnv == InitEnv /\ [][NextEnv]_vars

----------------------------------------------------------------------------
(* log_log step by step, for threads that run it at the same time.  The    *)
(* position of thread t in log_log is pc[t]:                               *)
(*   idle      not in a call                                               *)
(*   lock      passed the threshold test, about to call lock()             *)
(*   stderr    about to test L.quiet                                       *)
(*   err_msg, err_nl    about to write the message, the newline to stderr  *)
(*   file      about to test L.fp                                          *)
(*   file_msg, file_nl  about to write the message, the newline to L.fp    *)
(*   unlock    about to call unlock()                                      *)
(* The file sink is not replaced while threads are logging: log_log reads  *)
(* L.fp again for every write.                                             *)

InFlight == Cardinality({t \in Threads : pc[t] # "idle"})

RoomFor == Lines(console) + InFlight < MaxEmissions
           /\ Lines(file) + InFlight < MaxEmissions

Goto(t, where) == pc' = [pc EXCEPT ![t] = where]

Rest == UNCHANGED <<has_init_from_env, env, op, ret>>

T_Start(t, level) ==
  /\ pc[t] = "idle" /\ RoomFor
  /\ Commit(Begin(t))
  /\ IF passes(Cur, level) THEN Goto(t, "lock") ELSE UNCHANGED pc
  /\ Rest

\* lock(): a mutex callback returns once the mutex is free.
T_Acquire(t) ==
  /\ pc[t] = "lock"
  /\ L.lock # NULL => MutexFree(Cur, L.udata)
  /\ Commit(lock(Cur, t))
  /\ Goto(t, "stderr")
  /\ Rest

T_Stderr(t) ==
  /\ pc[t] = "stderr"
  /\ IF ~L.quiet
       THEN Commit(to_stderr(Cur, t, Prefix)) /\ Goto(t, "err_msg")
       ELSE Commit(Cur) /\ Goto(t, "file")
  /\ Rest

T_ErrMsg(t) ==
  /\ pc[t] = "err_msg"
  /\ Commit(to_stderr(Cur, t, MsgUser))
  /\ Goto(t, "err_nl")
  /\ Rest

T_ErrNl(t) ==
  /\ pc[t] = "err_nl"
  /\ Commit(to_stderr(Cur, t, Newline))
  /\ Goto(t, "file")
  /\ Rest

T_File(t) ==
  /\ pc[t] = "file"
  /\ IF L.fp # NULL
       THEN Commit(to_file(Cur, t, Prefix)) /\ Goto(t, "file_msg")
       ELSE Commit(Cur) /\ Goto(t, "unlock")
  /\ Rest

T_FileMsg(t) ==
  /\ pc[t] = "file_msg"
  /\ Commit(to_file(Cur, t, MsgUser))
  /\ Goto(t, "file_nl")
  /\ Rest

T_FileNl(t) ==
  /\ pc[t] = "file_nl"
  /\ Commit(to_file(Cur, t, Newline))
  /\ Goto(t, "unlock")
  /\ Rest

T_Release(t) ==
  /\ pc[t] = "unlock"
  /\ Commit(unlock(Cur, t))
  /\ Goto(t, "idle")
  /\ Rest

\* The setters, called by a thread that is not in log_log while the others
\* may be.
T_SetLock(t, fn) ==
  /\ pc[t] = "idle"
  /\ Commit([Begin(t) EXCEPT !.L.lock = fn])
  /\ UNCHANGED pc /\ Rest

T_SetUdata(t, udata) ==
  /\ pc[t] = "idle"
  /\ Commit([Begin(t) EXCEPT !.L.udata = udata])
  /\ UNCHANGED pc /\ Rest

T_SetQuiet(t, enable) ==
  /\ pc[t] = "idle"
  /\ Commit([Begin(t) EXCEPT !.L.quiet = enable])
  /\ UNCHANGED pc /\ Rest

\* log_set_level with a valid level (an invalid one is a log_error, that
\* is a T_Start at LOG_ERROR).
T_SetLevel(t, level) ==
  /\ pc[t] = "idle"
  /\ log_is_level(level)
  /\ Commit(log_set_level(Begin(t), t, level))
  /\ UNCHANGED pc /\ Rest

\* The steps of log_log, but for the writes that follow a non-null L.fp.
Emission(t) ==
  \/ \E level \in Levels : T_Start(t, level)
  \/ T_Acquire(t)
  \/ T_Stderr(t)
  \/ T_ErrMsg(t)
  \/ T_ErrNl(t)
  \/ T_File(t)
  \/ T_Release(t)

FileWrites(t) ==
  \/ T_FileMsg(t)
  \/ T_FileNl(t)

\* SpecThreads: from the state at program start (no file sink), threads log
\* while threads call log_set_lock and log_set_udata.
InitThreads ==
  Start([udata |-> NULL, lock |-> NULL, fp |-> NULL, level |-> 0, quiet |-> FALSE],
        {NullStr})

NextThreads ==
  \E t \in Threads :
    \/ Emission(t)
    \/ \E fn \in LockFns : T_SetLock(t, fn)
    \/ \E udata \in Udatas : T_SetUdata(t, udata)

SpecThreads == InitThreads /\ [][NextThreads]_vars

\* SpecLocked: the host installs its mutex callback (and the mutex, as user
\* data) before any thread logs, and never replaces either.
InitLocked ==
  \E l \in [udata : Udatas, lock : {MutexFn}, fp : Fps, level : {LOG_DEBUG},
            quiet : {FALSE}] : Start(l, {NullStr})

NextLocked ==
  \E t \in Threads :
    \/ Emission(t)
    \/ FileWrites(t)
    \/ \E enable \in BOOLEAN : T_SetQuiet(t, enable)
    \/ \E level \in Levels : T_SetLevel(t, level)

SpecLocked == InitLocked /\ [][NextLocked]_vars

----------------------------------------------------------------------------
(* Claims about emission and the plain setters (Spec).                     *)

\* The line an uninterrupted emission of msg by t adds to a sink.
Line(t, msg) == << <<t, Prefix>>, <<t, msg>>, <<t, Newline>> >>

\* C1: log_log with a message level M below the threshold T returns without
\* writing to the console, without writing to the file and without calling
\* the lock callback; with M >= T (M = T included) it writes exactly one
\* line to the console if quiet is false and exactly one line to the file
\* if a file sink is installed.
C1_ThresholdFilter ==
  [][op'.name = "log_log" =>
       IF op'.int < L.level
         THEN /\ console' = console
              /\ file' = file
              /\ calls'[Main] = <<>>
              /\ held' = held
         ELSE /\ console' = IF L.quiet THEN console
                            ELSE console \o Line(Main, MsgUser)
              /\ file' = IF L.fp = NULL THEN file
                         ELSE file \o Line(Main, MsgUser)]_vars

\* A message at exactly the threshold has been written to both sinks, under
\* the callback.
C1_Witness ==
  /\ op.name = "log_log"
  /\ op.int = L.level
  /\ console = Line(Main, MsgUser)
  /\ file = Line(Main, MsgUser)
  /\ Len(calls[Main]) = 2

\* C2 as stated: for every integer outside TRACE..FATAL log_set_level leaves
\* the threshold unchanged and signals an InvalidLevel error to its caller
\* (a return-value sentinel).
C2_SignalsCaller ==
  [][(op'.name = "log_set_level" /\ ~(op'.int \in Levels)) =>
       /\ L'.level = L.level
       /\ ret'.kind = "int"
       /\ ~(ret'.int \in Levels)]_vars

\* C2 as amended: for every integer outside TRACE..FATAL log_set_level leaves
\* L unchanged and returns nothing; the only report is the line "Tried to
\* set bad log level" that it logs at ERROR, which reaches the console only
\* if the threshold is at most ERROR and quiet is false, and the file only
\* if the threshold is at most ERROR and a file sink is installed.
C2_InvalidLevelLogged ==
  [][(op'.name = "log_set_level" /\ ~(op'.int \in Levels)) =>
       /\ L' = L
       /\ ret' = RetVoid
       /\ console' = IF L.level <= LOG_ERROR /\ ~L.quiet
                       THEN console \o Line(Main, MsgBadLevel) ELSE console
       /\ file' = IF L.level <= LOG_ERROR /\ L.fp # NULL
                    THEN file \o Line(Main, MsgBadLevel) ELSE file]_vars

\* log_set_level(999) has returned: the threshold is the one set before, and
\* the error line is on the console.
C2_Witness ==
  /\ op.name = "log_set_level"
  /\ op.int = 999
  /\ L.level = LOG_WARN
  /\ console = Line(Main, MsgBadLevel)

\* C7: while quiet is set, an emission at a level >= the threshold writes
\* nothing to the console and still writes one line to the file sink when
\* one is installed; log_set_quiet changes neither the threshold nor the
\* file sink nor the lock callback (nor its user data).
C7_QuietConsoleOnly ==
  [][/\ (op'.name = "log_log" /\ L.quiet /\ op'.int >= L.level) =>
          /\ console' = console
          /\ file' = IF L.fp = NULL THEN file ELSE file \o Line(Main, MsgUser)
     /\ op'.name = "log_set_quiet" =>
          /\ L'.quiet = (op'.int = 1)
          /\ L'.level = L.level
          /\ L'.fp = L.fp
          /\ L'.lock = L.lock
          /\ L'.udata = L.udata]_vars

\* Quiet is set, a file sink is installed, and an emission that passed the
\* threshold left the console empty and one line in the file.
C7_Witness ==
  /\ op.name = "log_log"
  /\ op.int >= L.level
  /\ L.quiet
  /\ L.fp # NULL
  /\ console = <<>>
  /\ file = Line(Main, MsgUser)

----------------------------------------------------------------------------
(* Claims about the functions on strings (SpecStrings).                    *)

StringFunctions ==
  {"log_name_to_level", "log_set_level_by_name", "log_set_level_from_string"}

\* What the sinks hold after a call that logged msg once, at ERROR, and
\* nothing else.
LoggedOnce(msg) ==
  /\ console' = IF L.level <= LOG_ERROR /\ ~L.quiet
                  THEN console \o Line(Main, msg) ELSE console
  /\ file' = IF L.level <= LOG_ERROR /\ L.fp # NULL
               THEN file \o Line(Main, msg) ELSE file

Denotes(s, v) ==
  \/ s = int_to_string(v)
  \/ Upcase(s) = level_names[v - LOG_TRACE + 1]

\* C8: for every valid level V, log_set_level_from_string given V's ordinal
\* in decimal, or V's name in any mix of case, sets the threshold to V and
\* returns V.
C8_OrdinalOrName ==
  \A v \in Levels :
    (op.name = "log_set_level_from_string" /\ Denotes(op.str, v)) =>
      /\ ret = RetInt(v)
      /\ L.level = v

\* C8 without the last level's ordinal: holds of the code.
C8_BelowFatalOrdinal ==
  \A v \in Levels :
    (/\ op.name = "log_set_level_from_string"
     /\ Denotes(op.str, v)
     /\ op.str # int_to_string(LOG_FATAL)) =>
      /\ ret = RetInt(v)
      /\ L.level = v

\* C9: log_set_level_by_name returns the level that was set when the name
\* resolves, and returns -1 on failure.
C9_MinusOneOnFailure ==
  op.name = "log_set_level_by_name" =>
    IF \E v \in Levels : Upcase(op.str) = level_names[v - LOG_TRACE + 1]
      THEN ret = RetInt(L.level) /\ Upcase(op.str) = log_level_to_name(L.level)
      ELSE ret = RetInt(-1)

\* C9 with BAD_LEVEL for -1: holds of the code.
C9_BadLevelOnFailure ==
  op.name = "log_set_level_by_name" =>
    IF \E v \in Levels : Upcase(op.str) = level_names[v - LOG_TRACE + 1]
      THEN ret = RetInt(L.level) /\ Upcase(op.str) = log_level_to_name(L.level)
      ELSE ret = RetInt(BAD_LEVEL)

\* C10: every index written or read in level_strings lies inside the array
\* allocated for it: the array has at least as many slots as there are
\* levels from LOG_TRACE to LOG_FATAL, and nothing is stored past its end.
C10_IndicesInBounds ==
  level_strings.alloc =>
    /\ level_strings.size >= Cardinality(Levels)
    /\ level_strings.past = <<>>

----------------------------------------------------------------------------
(* Claim about log_init_from_env (SpecEnv).                                *)

\* C4: log_init_from_env is a one-way latch.  A call made once the latch is
\* set leaves the whole logger state as it was, whatever LOG_LEVEL is then,
\* and calls nothing; the first call sets the latch whether LOG_LEVEL was
\* set, unset, empty or invalid; and no step of any operation resets it.
C4_EnvLatch ==
  [][/\ (op'.name = "log_init_from_env" /\ has_init_from_env # 0) =>
          /\ L' = L
          /\ has_init_from_env' = has_init_from_env
          /\ level_strings' = level_strings
          /\ console' = console
          /\ file' = file
          /\ held' = held
          /\ calls'[Main] = <<>>
     /\ (op'.name = "log_init_from_env" /\ has_init_from_env = 0) =>
          has_init_from_env' # 0
     /\ has_init_from_env # 0 => has_init_from_env' # 0]_vars

\* A call that found LOG_LEVEL=warn has returned and the threshold is still
\* the initial one: it was not the first call.
C4_Witness ==
  /\ op.name = "log_init_from_env"
  /\ op.str = Lowercase(level_names[LOG_WARN - LOG_TRACE + 1])
  /\ has_init_from_env # 0
  /\ L.level = LOG_DEBUG
  /\ console = <<>>

----------------------------------------------------------------------------
(* Claims about threads (SpecThreads, SpecLocked).                         *)

\* Between lock() and unlock().
Inside == {"stderr", "err_msg", "err_nl", "file", "file_msg", "file_nl", "unlock"}

\* The callback invocations of one emission are none, or one acquire and
\* then one release of the same callback with the same user data.
Paired(c) ==
  \/ c = <<>>
  \/ /\ Len(c) = 2
     /\ c[1].lock = 1
     /\ c[2].lock = 0
     /\ c[1].fn = c[2].fn
     /\ c[1].udata = c[2].udata

\* Inside an emission nothing but (at most) its one acquire has been called.
OnlyAcquired(c) == c = <<>> \/ (Len(c) = 1 /\ c[1].lock = 1)

\* C5 as stated: in any interleaving of emissions and calls of log_set_lock
\* and log_set_udata, the callback calls of each emission are strictly
\* paired: an acquire before the sink writes, a release with the same user
\* data after them, never one without the other.
C5_StrictlyPaired ==
  \A t \in Threads :
    /\ pc[t] \in Inside => OnlyAcquired(calls[t])
    /\ pc[t] = "idle" => Paired(calls[t])

\* What unlock() of thread t finds installed is what its lock() found.
SameAsAcquired(t) ==
  IF calls[t] = <<>> THEN L.lock = NULL
  ELSE L.lock = calls[t][1].fn /\ L.udata = calls[t][1].udata

\* C5 as amended: an emission whose unlock() finds the same callback and
\* the same user data installed as its lock() found (as when neither
\* log_set_lock nor log_set_udata runs during it) makes one acquire before
\* its sink writes and one release with the same user data after them, or
\* no call when no callback is installed; and no emission calls the
\* callback between its lock() and its unlock().
C5_PairedIfUnchanged ==
  [][\A t \in Threads :
       /\ pc'[t] \in Inside => OnlyAcquired(calls'[t])
       /\ (pc[t] = "unlock" /\ pc'[t] = "idle" /\ SameAsAcquired(t)) =>
            Paired(calls'[t])]_vars

\* An emission has ended with an acquire and a release of the mutex "m1",
\* on a console that it wrote to.
C5_Witness ==
  \E t \in Threads :
    /\ pc[t] = "idle"
    /\ Len(calls[t]) = 2
    /\ Paired(calls[t])
    /\ calls[t][1].udata = "m1"
    /\ \E i \in 1..Len(console) : console[i][1] = t

\* A sink holds whole lines only: prefix, message and newline of one
\* thread, one line after the other (the last one possibly unfinished).
WholeLines(stream) ==
  \A i \in 1..Len(stream) :
    LET k == (i - 1) % 3
    IN  /\ k = 0 => stream[i][2] = Prefix
        /\ k = 1 => stream[i][2] \notin {Prefix, Newline}
        /\ k = 2 => stream[i][2] = Newline
        /\ k > 0 => stream[i][1] = stream[i - 1][1]

\* C6: with a mutex callback installed before any thread logs and never
\* replaced, no two threads are between their acquire and their release at
\* once, every thread between them holds the mutex, and the lines of
\* different emissions never interleave in either sink.
C6_MutualExclusion ==
  /\ \A t, u \in Threads : (pc[t] \in Inside /\ pc[u] \in Inside) => t = u
  /\ \A t \in Threads : pc[t] \in Inside => held[L.udata] = t
  /\ WholeLines(console)
  /\ WholeLines(file)

\* One thread is in the middle of a line of the file while another waits
\* in lock() for the mutex.
C6_Witness ==
  \E t, u \in Threads :
    /\ pc[t] = "file_nl"
    /\ pc[u] = "lock"
    /\ held[L.udata] = t
    /\ Lines(console) = 1

====
